---- MODULE Spec2Model ----
(***************************************************************************)
(* The activity session coordinator of edubot: start_activity and          *)
(* stop_activity (activities/views.py), the MQTT transport they use        *)
(* (activities/mqtt_communication.py) and the Session / Attempt store      *)
(* (activities/models.py).                                                 *)
(*                                                                         *)
(* Every web request is a process; a request's handler is cut into the     *)
(* steps between which another request, the MQTT network thread or the     *)
(* clock may act.  A database query or statement is one step.              *)
(***************************************************************************)
EXTENDS Integers, Sequences, FiniteSets, TLC

VARIABLES
    now,        \* the wall clock (timezone.now(), time.time()), in ticks
    sessions,   \* the ChildActivity table: a set of rows
    stats,      \* the five attempt tables: table id -> set of rows
    pc,         \* each request thread's position
    loc,        \* each request thread's local variables
    result,     \* how each thread's last request ended
    client,     \* the MQTTClient instance of each thread's request
    outbox,     \* what each thread's request has published, in order
    msgs,       \* device messages published so far
    calls,      \* requests begun so far
    children,   \* the Child table: the ids of its rows
    sock        \* a connection of the raw-socket transport and its two ends

vars == <<now, sessions, stats, pc, loc, result, client, outbox, msgs, calls, children,
          sock>>

----------------------------------------------------------------------------
(* Bounds of the model *)

MaxTime == 2
TimeoutTicks == 1
MaxCalls == 2
MaxMsgs == 2
MaxAttempt == 4

Procs == {"p1", "p2"}
Children == {1, 2}

----------------------------------------------------------------------------
(* The attempt tables (models.py) *)

\* views.py dispatches on these activity ids
TouchBodyPart == 1
MatchColor == 2
FindNumber == 3
FindImage == 4
LearnWithButtons == 5
Tables == {TouchBodyPart, MatchColor, FindNumber, FindImage, LearnWithButtons}

BODY_PART_CHOICES == {"left_hand", "right_hand", "left_bumper", "right_bumper"}
COLOR_CHOICES == {"red", "yellow", "green", "blue", "black"}
NUMBER_CHOICES == {"1", "2", "3", "4", "5", "6", "7", "8", "9", "10"}
IMAGE_CHOICES == {"fruits", "shapes", "vehicles"}
BUTTON_CHOICES == {"horse", "cat", "dog"}

CHOICES(t) ==
    CASE t = TouchBodyPart -> BODY_PART_CHOICES
      [] t = MatchColor -> COLOR_CHOICES
      [] t = FindNumber -> NUMBER_CHOICES
      [] t = FindImage -> IMAGE_CHOICES
      [] t = LearnWithButtons -> BUTTON_CHOICES

\* DateTimeField(null=True): no timestamp
None == -1

\* "Limit to the last 3 attempts"
KeptAttempts == 3

\* The rows of table t that belong to Session ca
RowsOf(t, ca) == {r \in stats[t] : r.child_activity = ca}

RECURSIVE SetMax(_)
SetMax(S) ==
    IF S = {} THEN 0
    ELSE LET x == CHOOSE y \in S : TRUE
             m == SetMax(S \ {x})
         IN IF x > m THEN x ELSE m

\* filter(child_activity=...).order_by('-attempt').first(): the rows with the
\* highest attempt number (empty when the Session has no row)
LastAttempt(t, ca) ==
    {r \in RowsOf(t, ca) : r.attempt = SetMax({q.attempt : q \in RowsOf(t, ca)})}

\* self.attempt = last_attempt.attempt if last_attempt else 1
FirstAttemptNumber(last) ==
    IF last = {} THEN 1 ELSE (CHOOSE r \in last : TRUE).attempt

\* _is_new_attempt_group: filter(child_activity, attempt).count() == len(CHOICES)
IsNewAttemptGroupAlways(t, ca, attempt) == TRUE
IsNewAttemptGroup(t, ca, attempt) ==
    Cardinality({r \in RowsOf(t, ca) : r.attempt = attempt}) = Cardinality(CHOICES(t))

\* "if last_attempt and self.attempt > 3": whether save deletes the oldest group
DeletesOldestNever(hasLast, attempt) == FALSE
DeletesOldest(hasLast, attempt) == hasLast /\ attempt > KeptAttempts

\* filter(child_activity, attempt=self.attempt - 3).delete()
DeleteOldestOfTable(rows, ca, attempt) ==
    {r \in rows : ~(r.attempt = attempt - KeptAttempts)}
DeleteOldest(rows, ca, attempt) ==
    {r \in rows : ~(r.child_activity = ca /\ r.attempt = attempt - KeptAttempts)}

\* unique_together = ('child_activity', 'attempt', <choice>): the rows an
\* INSERT of this key collides with
SameKey(rows, ca, attempt, choice) ==
    {r \in rows : r.child_activity = ca /\ r.attempt = attempt /\ r.choice = choice}

UniqueViolationOff(rows, ca, attempt, choice) == FALSE
UniqueViolation(rows, ca, attempt, choice) == SameKey(rows, ca, attempt, choice) # {}

\* The row super().save() inserts; n tells rows of one key apart (the rows' pk)
NewRow(rows, ca, attempt, choice, right, wrong) ==
    [child_activity |-> ca, attempt |-> attempt, choice |-> choice,
     right_answers |-> right, wrong_answers |-> wrong,
     n |-> Cardinality(SameKey(rows, ca, attempt, choice))]

----------------------------------------------------------------------------
(* The raw-socket transport (socket_communication.py): no connection yet *)

\* SocketCommunication.__init__ on both ends.  wire holds the bytes sent and
\* not yet received; open tells whether the ends are connected ("yes") and
\* whether the sending end has closed ("closed"); sending holds the blob of a
\* send_image that has sent its header; sent and returned are history: the calls of the sending end with the bytes
\* each put on the wire, and what the calls of the receiving end returned.
NoSocket ==
    [wire |-> <<>>, open |-> "no", sending |-> <<>>,
     receiving |-> "no", size |-> 0, image_data |-> <<>>,
     sent |-> <<>>, returned |-> <<>>]


\* A request's local variables.  obj, data and inst hold at most one element:
\* the ChildActivity instance, the performance_data dict and the attempt row
\* being saved.
NoLocals ==
    [op |-> "none", child |-> 0, activity |-> 0, t0 |-> None,
     obj |-> {}, created |-> FALSE, deadline |-> None,
     data |-> {}, todo |-> {}, inst |-> {}, made |-> {}]

TheOne(S) == CHOOSE x \in S : TRUE

Idle(p) == pc[p] = "idle"

\* The request returns (or raises): its locals are gone
Finish(p, how) ==
    /\ pc' = [pc EXCEPT ![p] = "idle"]
    /\ result' = [result EXCEPT ![p] = how]
    /\ loc' = [loc EXCEPT ![p] = NoLocals]

----------------------------------------------------------------------------
(* AttemptedModel.save of a new row, statement by statement *)

\* last_attempt = ...first(); self.attempt = last_attempt.attempt or 1
SaveReadLast(p) ==
    /\ pc[p] = "v_last"
    /\ LET i == TheOne(loc[p].inst)
           last == LastAttempt(i.table, i.child_activity)
       IN loc' = [loc EXCEPT ![p].inst =
                     {[i EXCEPT !.attempt = FirstAttemptNumber(last),
                                !.hasLast = (last # {})]}]
    /\ pc' = [pc EXCEPT ![p] = "v_group"]
    /\ UNCHANGED <<children, sock, now, sessions, stats, result, client, outbox, msgs, calls>>

\* if self._is_new_attempt_group(): self.attempt += 1
SaveGroup(p) ==
    /\ pc[p] = "v_group"
    /\ LET i == TheOne(loc[p].inst)
           a == IF IsNewAttemptGroup(i.table, i.child_activity, i.attempt)
                THEN i.attempt + 1 ELSE i.attempt
       IN /\ loc' = [loc EXCEPT ![p].inst = {[i EXCEPT !.attempt = a]}]
          /\ pc' = [pc EXCEPT ![p] =
                       IF DeletesOldest(i.hasLast, a) THEN "v_delete" ELSE "v_insert"]
    /\ UNCHANGED <<children, sock, now, sessions, stats, result, client, outbox, msgs, calls>>

\* oldest_attempt.delete()
SaveDelete(p) ==
    /\ pc[p] = "v_delete"
    /\ LET i == TheOne(loc[p].inst)
       IN stats' = [stats EXCEPT ![i.table] =
                       DeleteOldest(@, i.child_activity, i.attempt)]
    /\ pc' = [pc EXCEPT ![p] = "v_insert"]
    /\ UNCHANGED <<children, sock, now, sessions, loc, result, client, outbox, msgs, calls>>

\* super().save(): the INSERT, refused by the table's unique_together
SaveInsert(p) ==
    /\ pc[p] = "v_insert"
    /\ LET i == TheOne(loc[p].inst)
           rows == stats[i.table]
           row == NewRow(rows, i.child_activity, i.attempt, i.choice,
                         i.right_answers, i.wrong_answers)
       IN IF UniqueViolation(rows, i.child_activity, i.attempt, i.choice)
          THEN /\ Finish(p, "IntegrityError")
               /\ UNCHANGED stats
          ELSE /\ stats' = [stats EXCEPT ![i.table] = @ \cup {row}]
               /\ IF loc[p].op = "create"
                  THEN /\ pc' = [pc EXCEPT ![p] = "idle"]
                       /\ result' = [result EXCEPT ![p] = "created"]
                       /\ loc' = [loc EXCEPT ![p].inst = {}]
                  ELSE /\ pc' = [pc EXCEPT ![p] = "t_loop"]
                       /\ loc' = [loc EXCEPT ![p].inst = {},
                                             ![p].made = @ \cup {row}]
                       /\ UNCHANGED result
    /\ UNCHANGED <<children, sock, now, sessions, client, outbox, msgs, calls>>

Save(p) == SaveReadLast(p) \/ SaveGroup(p) \/ SaveDelete(p) \/ SaveInsert(p)

\* The instance <Stats>.objects.create(child_activity=..., <choice>=...,
\* right_answers=..., wrong_answers=...) builds before it saves it
NewInstance(t, ca, choice, right, wrong) ==
    [table |-> t, child_activity |-> ca, choice |-> choice,
     right_answers |-> right, wrong_answers |-> wrong,
     attempt |-> 1, hasLast |-> FALSE]

----------------------------------------------------------------------------
(* ChildActivity.duration, in ticks of the clock: the code gives minutes,
   rounded to two places, of the same sign *)

Duration(s) ==
    IF s.start_activity # None /\ s.stop_activity # None
    THEN s.stop_activity - s.start_activity
    ELSE 0

----------------------------------------------------------------------------
(* The initial state: an empty database, no request running *)

\* MQTTClient.__init__; no attribute performance_data is ever assigned there.
\* last and waited are history: the last payload handed to the
\* client's handler, and whether its request was then waiting for a result
\* with its deadline ahead.
NoMessage ==
    [kind |-> "none", fields |-> <<>>, right_answers |-> <<>>, wrong_answers |-> <<>>]

NewClient ==
    [connected |-> FALSE, loop |-> FALSE, subscribed |-> {},
     performance_data_received |-> FALSE,
     correct_answers |-> 0, incorrect_answers |-> 0, average_time |-> 0,
     performance_data |-> {},
     last |-> NoMessage, waited |-> FALSE]

\* A ChildActivity row with the model's field defaults
NewSession(child, activity, start) ==
    [child |-> child, activity |-> activity,
     n |-> Cardinality({s \in sessions : s.child = child /\ s.activity = activity}),
     start_activity |-> start, stop_activity |-> None,
     total_right_answers |-> 0, total_wrong_answers |-> 0]

Init ==
    /\ now = 0
    /\ sessions = {}
    /\ stats = [t \in Tables |-> {}]
    /\ pc = [p \in Procs |-> "idle"]
    /\ loc = [p \in Procs |-> NoLocals]
    /\ result = [p \in Procs |-> "none"]
    /\ client = [p \in Procs |-> NewClient]
    /\ outbox = [p \in Procs |-> <<>>]
    /\ msgs = 0
    /\ calls = 0
    /\ children = Children
    /\ sock = NoSocket

----------------------------------------------------------------------------
(* The store on its own: rows created one <Stats>.objects.create at a time *)

\* The Session the store specifications write to, as start_activity leaves it
StoreSession == <<1, FindImage>>
StoreKeys == IMAGE_CHOICES \cup {"other"}

InitStore ==
    /\ now = 0
    /\ sessions = {[child |-> StoreSession[1], activity |-> StoreSession[2], n |-> 0,
                    start_activity |-> 0, stop_activity |-> None,
                    total_right_answers |-> 0, total_wrong_answers |-> 0]}
    /\ stats = [t \in Tables |-> {}]
    /\ pc = [p \in Procs |-> "idle"]
    /\ loc = [p \in Procs |-> NoLocals]
    /\ result = [p \in Procs |-> "none"]
    /\ client = [p \in Procs |-> NewClient]
    /\ outbox = [p \in Procs |-> <<>>]
    /\ msgs = 0
    /\ calls = 0
    /\ children = Children
    /\ sock = NoSocket

\* The model stops creating rows once attempt group max is complete
StoreFull(t, ca, max) ==
    \E r \in RowsOf(t, ca) : r.attempt >= max /\ IsNewAttemptGroup(t, ca, r.attempt)

\* <Stats>.objects.create(...) for a Session that exists
Create(p, t, ca, choice, right, wrong) ==
    /\ Idle(p)
    /\ \E s \in sessions : <<s.child, s.activity>> = ca
    /\ loc' = [loc EXCEPT ![p] =
                  [NoLocals EXCEPT !.op = "create", !.child = ca[1], !.activity = ca[2],
                                   !.inst = {NewInstance(t, ca, choice, right, wrong)}]]
    /\ pc' = [pc EXCEPT ![p] = "v_last"]
    /\ result' = [result EXCEPT ![p] = "none"]
    /\ UNCHANGED <<children, sock, now, sessions, stats, client, outbox, msgs, calls>>

\* One writer at a time
NextStoreSeq ==
    \/ \E choice \in StoreKeys :
          /\ ~StoreFull(FindImage, StoreSession, MaxAttempt)
          /\ Create("p1", FindImage, StoreSession, choice, 1, 0)
    \/ \E p \in Procs : Save(p)

SpecStoreSeq == InitStore /\ [][NextStoreSeq]_vars

\* Writers whose statements interleave
NextStore ==
    \/ \E p \in Procs, choice \in IMAGE_CHOICES :
          /\ ~StoreFull(FindImage, StoreSession, MaxAttempt)
          /\ Create(p, FindImage, StoreSession, choice, 1, 0)
    \/ \E p \in Procs : Save(p)

SpecStore == InitStore /\ [][NextStore]_vars

\* The same writer in a database that holds more: the Session of another
\* child with a row of FindImage, and a Session of the same child with a row
\* of MatchColor, each left by a run
OtherSessionRow == NewRow({}, <<2, FindImage>>, 1, "fruits", 1, 0)
OtherTableRow == NewRow({}, <<1, MatchColor>>, 1, "red", 1, 0)

InitWindow ==
    /\ now = 0
    /\ sessions = {[child |-> ca[1], activity |-> ca[2], n |-> 0,
                    start_activity |-> 0, stop_activity |-> None,
                    total_right_answers |-> 0, total_wrong_answers |-> 0] :
                       ca \in {StoreSession, <<2, FindImage>>, <<1, MatchColor>>}}
    /\ stats = [t \in Tables |->
                  CASE t = FindImage -> {OtherSessionRow}
                    [] t = MatchColor -> {OtherTableRow}
                    [] OTHER -> {}]
    /\ pc = [p \in Procs |-> "idle"]
    /\ loc = [p \in Procs |-> NoLocals]
    /\ result = [p \in Procs |-> "none"]
    /\ client = [p \in Procs |-> NewClient]
    /\ outbox = [p \in Procs |-> <<>>]
    /\ msgs = 0
    /\ calls = 0
    /\ children = Children
    /\ sock = NoSocket

SpecWindow == InitWindow /\ [][NextStoreSeq]_vars

----------------------------------------------------------------------------
(* The MQTT transport (mqtt_communication.py) and the device *)

\* An activity id views.py has no attempt table for ("activity/start/6")
OtherActivity == 6
Activities == {FindImage, OtherActivity}

\* One field of payload.decode().split(','): text that int() and float()
\* accept, or text they reject
Num(v) == [num |-> TRUE, val |-> v]
NaN == [num |-> FALSE, val |-> 0]

\* What the device may publish on activity/performance/{activity_id}.
\* A JSON payload {"right_answers": {...}, "wrong_answers": {...}} holds a
\* comma between its two members, so split(',') gives at least two fields and
\* none of them is a number.
PayloadKeys == {"fruits", "shapes"}
RightMaps == {[k \in K |-> IF k = "fruits" THEN 1 ELSE 0] : K \in SUBSET PayloadKeys}
WrongMaps == {[k \in K |-> 1] : K \in SUBSET PayloadKeys}
JsonPayloads ==
    {[kind |-> "json", fields |-> <<NaN, NaN>>, right_answers |-> r, wrong_answers |-> w] :
        r \in RightMaps, w \in WrongMaps}
CsvPayloads ==
    {[kind |-> "csv", fields |-> f, right_answers |-> <<>>, wrong_answers |-> <<>>] :
        f \in {<<Num(2), Num(1), Num(5)>>, <<Num(0), Num(3), Num(7)>>}}
BadPayloads ==
    {[kind |-> "bad", fields |-> f, right_answers |-> <<>>, wrong_answers |-> <<>>] :
        f \in {<<Num(2), Num(1)>>, <<Num(2)>>}}

\* on_message, the handler of src/: "correct,incorrect,average_time".
\* An exception leaves the handler where it is raised and ends the network
\* thread that called it (paho re-raises a callback's exception).
OnMessageKeepsFirst(cl, m) ==
    LET data == m.fields
    IN IF Len(data) < 2 \/ ~data[1].num \/ ~data[2].num
       THEN [cl EXCEPT !.loop = FALSE]
       ELSE IF Len(data) < 3 \/ ~data[3].num
            THEN [cl EXCEPT !.correct_answers = data[1].val,
                            !.incorrect_answers = data[2].val,
                            !.loop = FALSE]
            ELSE IF cl.performance_data_received
                 THEN cl
                 ELSE [cl EXCEPT !.correct_answers = data[1].val,
                                 !.incorrect_answers = data[2].val,
                                 !.average_time = data[3].val,
                                 !.performance_data_received = TRUE]
OnMessage(cl, m) ==
    LET data == m.fields
    IN IF Len(data) < 2 \/ ~data[1].num \/ ~data[2].num
       THEN [cl EXCEPT !.loop = FALSE]
       ELSE IF Len(data) < 3 \/ ~data[3].num
            THEN [cl EXCEPT !.correct_answers = data[1].val,
                            !.incorrect_answers = data[2].val,
                            !.loop = FALSE]
            ELSE [cl EXCEPT !.correct_answers = data[1].val,
                            !.incorrect_answers = data[2].val,
                            !.average_time = data[3].val,
                            !.performance_data_received = TRUE]

\* The handler stop_activity reads from: it keeps the JSON payload as the
\* dict performance_data.  No file of src/ holds it.
OnMessageJson(cl, m) ==
    IF m.kind = "json"
    THEN [cl EXCEPT !.performance_data =
                        {[right_answers |-> m.right_answers,
                          wrong_answers |-> m.wrong_answers]},
                    !.performance_data_received = TRUE]
    ELSE cl

\* The clients the broker hands a message on activity/performance/{a} to
Subscribers(a) ==
    {p \in Procs : client[p].connected /\ client[p].loop /\ a \in client[p].subscribed}

\* The device publishes m on activity/performance/{a}; the network thread of
\* every subscribed client runs its handler: on_message of src/, or (stored)
\* the handler that stores the JSON result
Handle(stored, cl, m) == IF stored THEN OnMessageJson(cl, m) ELSE OnMessage(cl, m)

DevicePublish(stored, a, m) ==
    /\ msgs < MaxMsgs
    /\ Subscribers(a) # {}
    /\ msgs' = msgs + 1
    /\ client' = [p \in Procs |->
                    IF p \in Subscribers(a)
                    THEN [Handle(stored, client[p], m) EXCEPT
                             !.last = m,
                             !.waited = (pc[p] = "t_poll" /\ now < loc[p].deadline)]
                    ELSE client[p]]
    /\ UNCHANGED <<children, sock, now, sessions, stats, pc, loc, result, outbox, calls>>

\* The clock; it is followed up to MaxTime and to the deadline of a request
\* that polls
Tick ==
    /\ \/ now < MaxTime
       \/ \E p \in Procs : pc[p] = "t_poll" /\ now < loc[p].deadline
    /\ now' = now + 1
    /\ UNCHANGED <<children, sock, sessions, stats, pc, loc, result, client, outbox, msgs, calls>>

----------------------------------------------------------------------------
(* The ChildActivity table *)

SessionsOf(child, activity) ==
    {s \in sessions : s.child = child /\ s.activity = activity}

\* unique_together = ('child', 'activity')
PairTakenOff(child, activity) == FALSE
PairTaken(child, activity) == SessionsOf(child, activity) # {}

\* Model.save() of a loaded instance: UPDATE of every field by primary key
\* (INSERT when no row has that key)
SaveSession(rows, obj) ==
    {s \in rows : ~(s.child = obj.child /\ s.activity = obj.activity /\ s.n = obj.n)}
        \cup {obj}

\* A request begins: fresh locals, a fresh outbox
Begin(p, op, child, activity, at) ==
    /\ Idle(p)
    /\ calls < MaxCalls
    /\ calls' = calls + 1
    /\ loc' = [loc EXCEPT ![p] =
                  [NoLocals EXCEPT !.op = op, !.child = child, !.activity = activity]]
    /\ pc' = [pc EXCEPT ![p] = at]
    /\ result' = [result EXCEPT ![p] = "none"]
    /\ outbox' = [outbox EXCEPT ![p] = <<>>]

\* mqtt_client = MQTTClient(); mqtt_client.connect(): connect raises when the
\* broker cannot be reached, and the request ends with that exception
Connect(p, next) ==
    \/ /\ client' = [client EXCEPT ![p] =
                        [NewClient EXCEPT !.connected = TRUE, !.loop = TRUE]]
       /\ pc' = [pc EXCEPT ![p] = next]
       /\ UNCHANGED <<loc, result>>
    \/ /\ client' = [client EXCEPT ![p] = NewClient]
       /\ Finish(p, "ConnectError")

----------------------------------------------------------------------------
(* start_activity *)

StartCall(p, child, activity) ==
    /\ Begin(p, "start", child, activity, "s_get")
    /\ UNCHANGED <<children, sock, now, sessions, stats, client, msgs>>

\* get_or_create(child, activity, defaults={'start_activity': now}): the get
StartGet(p) ==
    /\ pc[p] = "s_get"
    /\ loc[p].child \in children
    /\ LET found == SessionsOf(loc[p].child, loc[p].activity)
       IN IF found = {}
          THEN /\ loc' = [loc EXCEPT ![p].t0 = now]
               /\ pc' = [pc EXCEPT ![p] = "s_create"]
          ELSE \E s \in found :
                  /\ loc' = [loc EXCEPT ![p].t0 = now, ![p].obj = {s}]
                  /\ pc' = [pc EXCEPT ![p] = "s_update"]
    /\ UNCHANGED <<children, sock, now, sessions, stats, result, client, outbox, msgs, calls>>

\* get_or_create: the create; an IntegrityError sends it back to a get
StartCreate(p) ==
    /\ pc[p] = "s_create"
    /\ IF PairTaken(loc[p].child, loc[p].activity)
       THEN /\ pc' = [pc EXCEPT ![p] = "s_reget"]
            /\ UNCHANGED <<sessions, loc>>
       ELSE LET s == NewSession(loc[p].child, loc[p].activity, loc[p].t0)
            IN /\ sessions' = sessions \cup {s}
               /\ loc' = [loc EXCEPT ![p].obj = {s}, ![p].created = TRUE]
               /\ pc' = [pc EXCEPT ![p] = "s_connect"]
    /\ UNCHANGED <<children, sock, now, stats, result, client, outbox, msgs, calls>>

\* get_or_create: the get after an IntegrityError (which is raised again
\* when the row is gone)
StartReget(p) ==
    /\ pc[p] = "s_reget"
    /\ LET found == SessionsOf(loc[p].child, loc[p].activity)
       IN IF found = {}
          THEN Finish(p, "IntegrityError")
          ELSE /\ \E s \in found : loc' = [loc EXCEPT ![p].obj = {s}]
               /\ pc' = [pc EXCEPT ![p] = "s_update"]
               /\ UNCHANGED result
    /\ UNCHANGED <<children, sock, now, sessions, stats, client, outbox, msgs, calls>>

\* if not created: child_activity.start_activity = now; child_activity.save()
StartUpdate(p) ==
    /\ pc[p] = "s_update"
    /\ LET obj == [TheOne(loc[p].obj) EXCEPT !.start_activity = now]
       IN /\ sessions' = SaveSession(sessions, obj)
          /\ loc' = [loc EXCEPT ![p].obj = {obj}]
    /\ pc' = [pc EXCEPT ![p] = "s_connect"]
    /\ UNCHANGED <<children, sock, now, stats, result, client, outbox, msgs, calls>>

StartConnect(p) ==
    /\ pc[p] = "s_connect"
    /\ Connect(p, "s_publish")
    /\ UNCHANGED <<children, sock, now, sessions, stats, outbox, msgs, calls>>

\* mqtt_client.publish("activity/start/{activity_id}", activity_id); return
StartPublish(p) ==
    /\ pc[p] = "s_publish"
    /\ outbox' = [outbox EXCEPT ![p] = Append(@, <<"activity/start", loc[p].activity>>)]
    /\ Finish(p, "started")
    /\ UNCHANGED <<children, sock, now, sessions, stats, client, msgs, calls>>

Start(p) ==
    \/ StartGet(p) \/ StartCreate(p) \/ StartReget(p) \/ StartUpdate(p)
    \/ StartConnect(p) \/ StartPublish(p)

\* start_activity when no other request runs: no create is ever refused
StartSolo(p) ==
    StartGet(p) \/ StartCreate(p) \/ StartUpdate(p) \/ StartConnect(p) \/ StartPublish(p)

----------------------------------------------------------------------------
(* stop_activity *)

\* sum(mapping.values())
RECURSIVE SumValues(_)
SumValues(f) ==
    IF DOMAIN f = {} THEN 0
    ELSE LET k == CHOOSE x \in DOMAIN f : TRUE
         IN f[k] + SumValues([x \in DOMAIN f \ {k} |-> f[x]])

\* performance_data['wrong_answers'].get(key, 0)
GetOrZero(f, k) == IF k \in DOMAIN f THEN f[k] ELSE 0

\* The attempt table of "if activity_id == 1: ... elif activity_id == 5: ..."
StatsTablesElse(activity) == IF activity \in Tables THEN {activity} ELSE {LearnWithButtons}
StatsTables(activity) == IF activity \in Tables THEN {activity} ELSE {}

\* The request is held back until its timeout fits the clock of the model
StopCall(p, child, activity) ==
    /\ now + TimeoutTicks <= MaxTime
    /\ Begin(p, "stop", child, activity, "t_connect")
    /\ UNCHANGED <<children, sock, now, sessions, stats, client, msgs>>

StopConnect(p) ==
    /\ pc[p] = "t_connect"
    /\ Connect(p, "t_subscribe")
    /\ UNCHANGED <<children, sock, now, sessions, stats, outbox, msgs, calls>>

\* mqtt_client.subscribe("activity/performance/{activity_id}")
StopSubscribeSkipped(p) ==
    /\ pc[p] = "t_subscribe"
    /\ pc' = [pc EXCEPT ![p] = "t_publish"]
    /\ UNCHANGED <<children, sock, now, sessions, stats, loc, result, client, outbox, msgs,
                   calls>>
StopSubscribe(p) ==
    /\ pc[p] = "t_subscribe"
    /\ client' = [client EXCEPT ![p].subscribed = @ \cup {loc[p].activity}]
    /\ pc' = [pc EXCEPT ![p] = "t_publish"]
    /\ UNCHANGED <<children, sock, now, sessions, stats, loc, result, outbox, msgs, calls>>

\* mqtt_client.publish("activity/stop/{activity_id}", "0");
\* timeout = time.time() + 10
StopPublish(p) ==
    /\ pc[p] = "t_publish"
    /\ outbox' = [outbox EXCEPT ![p] = Append(@, <<"activity/stop", loc[p].activity>>)]
    /\ loc' = [loc EXCEPT ![p].t0 = now, ![p].deadline = now + TimeoutTicks]
    /\ pc' = [pc EXCEPT ![p] = "t_poll"]
    /\ UNCHANGED <<children, sock, now, sessions, stats, result, client, msgs, calls>>

\* while time.time() < timeout: the window has passed; performance_data is
\* None and the view returns ("No performance data received")
StopTimeoutMovingDeadline(p) ==
    /\ pc[p] = "t_poll"
    /\ ~(now < now + TimeoutTicks)
    /\ Finish(p, "timedout")
    /\ UNCHANGED <<children, sock, now, sessions, stats, client, outbox, msgs, calls>>
StopTimeoutSaves(p) ==
    /\ pc[p] = "t_poll"
    /\ ~(now < loc[p].deadline)
    /\ sessions' = {IF s.child = loc[p].child /\ s.activity = loc[p].activity
                    THEN [s EXCEPT !.stop_activity = now,
                                   !.total_right_answers = 0,
                                   !.total_wrong_answers = 0]
                    ELSE s : s \in sessions}
    /\ Finish(p, "timedout")
    /\ UNCHANGED <<children, sock, now, stats, client, outbox, msgs, calls>>
StopTimeout(p) ==
    /\ pc[p] = "t_poll"
    /\ ~(now < loc[p].deadline)
    /\ Finish(p, "timedout")
    /\ UNCHANGED <<children, sock, now, sessions, stats, client, outbox, msgs, calls>>

\* if mqtt_client.performance_data_received:
\*     performance_data = mqtt_client.performance_data
\* on a client that has no such attribute: AttributeError
StopPollRaise(p) ==
    /\ pc[p] = "t_poll"
    /\ now < loc[p].deadline
    /\ client[p].performance_data_received
    /\ client[p].performance_data = {}
    /\ Finish(p, "AttributeError")
    /\ UNCHANGED <<children, sock, now, sessions, stats, client, outbox, msgs, calls>>

\* ... on a client that holds the dict: break, and the dict is not empty
StopPollReceive(p) ==
    /\ pc[p] = "t_poll"
    /\ now < loc[p].deadline
    /\ client[p].performance_data_received
    /\ client[p].performance_data # {}
    /\ loc' = [loc EXCEPT ![p].data = client[p].performance_data]
    /\ pc' = [pc EXCEPT ![p] = "t_get"]
    /\ UNCHANGED <<children, sock, now, sessions, stats, result, client, outbox, msgs, calls>>

\* get_or_create(child_id, activity_id): the get
StopGet(p) ==
    /\ pc[p] = "t_get"
    /\ LET found == SessionsOf(loc[p].child, loc[p].activity)
       IN IF found = {}
          THEN /\ pc' = [pc EXCEPT ![p] = "t_create"]
               /\ UNCHANGED loc
          ELSE \E s \in found :
                  /\ loc' = [loc EXCEPT ![p].obj = {s}]
                  /\ pc' = [pc EXCEPT ![p] = "t_save"]
    /\ UNCHANGED <<children, sock, now, sessions, stats, result, client, outbox, msgs, calls>>

\* get_or_create: the create (no defaults: no start time); an
\* IntegrityError sends it back to a get
StopCreate(p) ==
    /\ pc[p] = "t_create"
    /\ loc[p].child \in children
    /\ IF PairTaken(loc[p].child, loc[p].activity)
       THEN /\ pc' = [pc EXCEPT ![p] = "t_reget"]
            /\ UNCHANGED <<sessions, loc>>
       ELSE LET s == NewSession(loc[p].child, loc[p].activity, None)
            IN /\ sessions' = sessions \cup {s}
               /\ loc' = [loc EXCEPT ![p].obj = {s}, ![p].created = TRUE]
               /\ pc' = [pc EXCEPT ![p] = "t_save"]
    /\ UNCHANGED <<children, sock, now, stats, result, client, outbox, msgs, calls>>

\* get_or_create: the get after an IntegrityError
StopReget(p) ==
    /\ pc[p] = "t_reget"
    /\ LET found == SessionsOf(loc[p].child, loc[p].activity)
       IN IF found = {}
          THEN Finish(p, "IntegrityError")
          ELSE /\ \E s \in found : loc' = [loc EXCEPT ![p].obj = {s}]
               /\ pc' = [pc EXCEPT ![p] = "t_save"]
               /\ UNCHANGED result
    /\ UNCHANGED <<children, sock, now, sessions, stats, client, outbox, msgs, calls>>

\* sum(performance_data['wrong_answers'].values())
TotalWrongOfRightKeys(data) ==
    SumValues([k \in DOMAIN data.right_answers |-> GetOrZero(data.wrong_answers, k)])
TotalWrong(data) == SumValues(data.wrong_answers)

\* child_activity.stop_activity = now; total_right_answers = sum(...);
\* total_wrong_answers = sum(...); child_activity.save()
StopSave(p) ==
    /\ pc[p] = "t_save"
    /\ LET data == TheOne(loc[p].data)
           obj == [TheOne(loc[p].obj) EXCEPT
                      !.stop_activity = now,
                      !.total_right_answers = SumValues(data.right_answers),
                      !.total_wrong_answers = TotalWrong(data)]
       IN /\ sessions' = SaveSession(sessions, obj)
          /\ loc' = [loc EXCEPT ![p].obj = {obj},
                                ![p].todo = IF StatsTables(loc[p].activity) = {}
                                            THEN {} ELSE DOMAIN data.right_answers]
    /\ pc' = [pc EXCEPT ![p] = "t_loop"]
    /\ UNCHANGED <<children, sock, now, stats, result, client, outbox, msgs, calls>>

\* for key, right_answers in performance_data['right_answers'].items():
\*     <Stats>.objects.create(child_activity, key, right_answers, wrong_answers)
\* (the dict's order is the payload's: any order)
StopNextRow(p) ==
    /\ pc[p] = "t_loop"
    /\ loc[p].todo # {}
    /\ \E k \in loc[p].todo :
          LET data == TheOne(loc[p].data)
              t == TheOne(StatsTables(loc[p].activity))
          IN loc' = [loc EXCEPT
                        ![p].todo = @ \ {k},
                        ![p].inst = {NewInstance(t, <<loc[p].child, loc[p].activity>>, k,
                                                 data.right_answers[k],
                                                 GetOrZero(data.wrong_answers, k))}]
    /\ pc' = [pc EXCEPT ![p] = "v_last"]
    /\ UNCHANGED <<children, sock, now, sessions, stats, result, client, outbox, msgs, calls>>

\* mqtt_client.reset_performance_data()
StopReset(p) ==
    /\ pc[p] = "t_loop"
    /\ loc[p].todo = {}
    /\ client' = [client EXCEPT ![p].performance_data_received = FALSE,
                                ![p].correct_answers = 0,
                                ![p].incorrect_answers = 0,
                                ![p].average_time = 0]
    /\ pc' = [pc EXCEPT ![p] = "t_unsubscribe"]
    /\ UNCHANGED <<children, sock, now, sessions, stats, loc, result, outbox, msgs, calls>>

\* mqtt_client.unsubscribe(performance_topic); return
StopUnsubscribe(p) ==
    /\ pc[p] = "t_unsubscribe"
    /\ client' = [client EXCEPT ![p].subscribed = @ \ {loc[p].activity}]
    /\ Finish(p, "completed")
    /\ UNCHANGED <<children, sock, now, sessions, stats, outbox, msgs, calls>>

\* stop_activity up to the wait
StopWait(p) ==
    StopConnect(p) \/ StopSubscribe(p) \/ StopPublish(p) \/ StopTimeout(p)

\* stop_activity once it holds a result.  Within MaxCalls requests no attempt
\* number passes KeptAttempts, so no save reaches its delete statement here;
\* the store specifications cover it.
StopReconcile(p) ==
    \/ StopPollReceive(p) \/ StopGet(p) \/ StopCreate(p) \/ StopSave(p)
    \/ StopNextRow(p) \/ SaveReadLast(p) \/ SaveGroup(p) \/ SaveInsert(p)
    \/ StopReset(p) \/ StopUnsubscribe(p)

----------------------------------------------------------------------------
(* The program of src/: its transport takes "correct,incorrect,time".
   Requests of two threads overlap. *)

\* One JSON result among the payloads the device may send
JsonSample ==
    {m \in JsonPayloads : DOMAIN m.right_answers = {"fruits"} /\ DOMAIN m.wrong_answers = {}}

Next ==
    \/ \E p \in Procs : StartCall(p, 1, FindImage) \/ StopCall(p, 1, FindImage)
    \/ \E p \in Procs : Start(p) \/ StopWait(p) \/ StopPollRaise(p)
    \/ \E m \in CsvPayloads \cup BadPayloads \cup JsonSample :
          DevicePublish(FALSE, FindImage, m)
    \/ Tick

Spec == Init /\ [][Next]_vars

\* Its stop requests under their scheduling: the clock advances, and a
\* request thread that can take its next statement takes it
NextLive ==
    \/ \E p \in Procs : StopCall(p, 1, FindImage)
    \/ \E p \in Procs : StopWait(p) \/ StopPollRaise(p)
    \/ \E m \in CsvPayloads \cup BadPayloads \cup JsonSample :
          DevicePublish(FALSE, FindImage, m)
    \/ Tick

SpecLive ==
    /\ Init /\ [][NextLive]_vars
    /\ WF_vars(Tick)
    /\ \A p \in Procs : WF_vars(StopWait(p) \/ StopPollRaise(p))

(* The program with the transport stop_activity is written against: its
   handler keeps the JSON payload in performance_data.  One request at a
   time; the clock is followed while a request polls, where its deadline
   depends on it. *)

NextResult ==
    \/ StartCall("p1", 1, FindImage) \/ StopCall("p1", 1, FindImage)
    \/ \E p \in Procs : StartSolo(p) \/ StopWait(p) \/ StopReconcile(p)
    \/ \E m \in JsonPayloads : DevicePublish(TRUE, FindImage, m)
    \/ (\E p \in Procs : pc[p] = "t_poll") /\ Tick

SpecResult == Init /\ [][NextResult]_vars

(* The same, with overlapping requests of two threads *)

NextRace ==
    \/ \E p \in Procs : StartCall(p, 1, FindImage) \/ StopCall(p, 1, FindImage)
    \/ \E p \in Procs : Start(p) \/ StopWait(p) \/ StopReconcile(p) \/ StopReget(p)
    \/ \E m \in JsonSample : DevicePublish(TRUE, FindImage, m)
    \/ Tick

SpecRace == Init /\ [][NextRace]_vars

(* Two threads stop the same activity, each for its own child *)

ChildOf(p) == IF p = "p1" THEN 1 ELSE 2

NextCross ==
    \/ \E p \in Procs : StopCall(p, ChildOf(p), FindImage)
    \/ \E p \in Procs : StopWait(p) \/ StopReconcile(p)
    \/ \E m \in JsonSample : DevicePublish(TRUE, FindImage, m)
    \/ Tick

SpecCross == Init /\ [][NextCross]_vars

(* One request at a time, for an activity with a stats table and for one
   without *)

NextOther ==
    \/ \E activity \in Activities : StopCall("p1", 1, activity)
    \/ \E p \in Procs : StopWait(p) \/ StopReconcile(p)
    \/ \E a \in Activities, m \in JsonPayloads : DevicePublish(TRUE, a, m)
    \/ (\E p \in Procs : pc[p] = "t_poll") /\ Tick

SpecOther == Init /\ [][NextOther]_vars

----------------------------------------------------------------------------
(* delete_child (views.py) and the rows a Child's deletion cascades to *)

\* child = get_object_or_404(Child, id=child_id) of start_activity: no such
\* Child, the request ends with a 404
StartNotFound(p) ==
    /\ pc[p] = "s_get"
    /\ loc[p].child \notin children
    /\ Finish(p, "Http404")
    /\ UNCHANGED <<children, sock, now, sessions, stats, client, outbox, msgs, calls>>

\* get_or_create(child_id=child_id, ...) of stop_activity: the create of a
\* ChildActivity whose child_id names no Child is refused by the foreign key
StopCreateOrphan(p) ==
    /\ pc[p] = "t_create"
    /\ loc[p].child \notin children
    /\ Finish(p, "IntegrityError")
    /\ UNCHANGED <<children, sock, now, sessions, stats, client, outbox, msgs, calls>>

\* ChildActivity.child = ForeignKey(Child, on_delete=CASCADE): the Sessions
\* that are deleted with a Child
CascadeSessions(rows, child) == {s \in rows : s.child = child}

\* <Stats>.child_activity = ForeignKey(ChildActivity, on_delete=CASCADE): the
\* attempt rows that are deleted with those Sessions
CascadeStatsNone(rows, gone) == {}
CascadeStats(rows, gone) ==
    {r \in rows : \E s \in gone : r.child_activity = <<s.child, s.activity>>}

DeleteCall(p, child) ==
    /\ Begin(p, "delete", child, 0, "d_get")
    /\ UNCHANGED <<children, sock, now, sessions, stats, client, msgs>>

\* child = get_object_or_404(Child, id=child_id)
DeleteGet(p) ==
    /\ pc[p] = "d_get"
    /\ IF loc[p].child \in children
       THEN /\ pc' = [pc EXCEPT ![p] = "d_delete"]
            /\ UNCHANGED <<loc, result>>
       ELSE Finish(p, "Http404")
    /\ UNCHANGED <<children, sock, now, sessions, stats, client, outbox, msgs, calls>>

\* child.delete(): in one transaction the attempt rows of the Child's
\* Sessions, those Sessions and the Child row; made keeps the attempt rows
\* that were deleted
DeleteCascade(p) ==
    /\ pc[p] = "d_delete"
    /\ LET gone == CascadeSessions(sessions, loc[p].child)
       IN /\ stats' = [t \in Tables |-> stats[t] \ CascadeStats(stats[t], gone)]
          /\ sessions' = sessions \ gone
          /\ loc' = [loc EXCEPT ![p].made =
                        UNION {CascadeStats(stats[t], gone) : t \in Tables}]
    /\ children' = children \ {loc[p].child}
    /\ pc' = [pc EXCEPT ![p] = "d_redirect"]
    /\ UNCHANGED <<sock, now, result, client, outbox, msgs, calls>>

\* return redirect('selectchild')
DeleteRedirect(p) ==
    /\ pc[p] = "d_redirect"
    /\ Finish(p, "deleted")
    /\ UNCHANGED <<children, sock, now, sessions, stats, client, outbox, msgs, calls>>

Delete(p) == DeleteGet(p) \/ DeleteCascade(p) \/ DeleteRedirect(p)

\* The Session and the attempt row a completed run of FindImage with the
\* result {"right_answers": {"fruits": 1}, "wrong_answers": {}} leaves
RunSession(child) ==
    [child |-> child, activity |-> FindImage, n |-> 0,
     start_activity |-> 0, stop_activity |-> 0,
     total_right_answers |-> 1, total_wrong_answers |-> 0]
RunRow(child) == NewRow({}, <<child, FindImage>>, 1, "fruits", 1, 0)

\* A database in which some of the children have completed a run
InitDelete ==
    /\ now = 0
    /\ \E K \in SUBSET Children :
          /\ sessions = {RunSession(c) : c \in K}
          /\ stats = [t \in Tables |->
                        IF t = FindImage THEN {RunRow(c) : c \in K} ELSE {}]
    /\ pc = [p \in Procs |-> "idle"]
    /\ loc = [p \in Procs |-> NoLocals]
    /\ result = [p \in Procs |-> "none"]
    /\ client = [p \in Procs |-> NewClient]
    /\ outbox = [p \in Procs |-> <<>>]
    /\ msgs = 0
    /\ calls = 0
    /\ children = Children
    /\ sock = NoSocket

\* One request at a time: children are deleted, activities started and
\* stopped, for children that exist and for children that are gone
NextDelete ==
    \/ \E c \in Children :
          \/ DeleteCall("p1", c)
          \/ StartCall("p1", c, FindImage)
          \/ StopCall("p1", c, FindImage)
    \/ \E p \in Procs : Delete(p)
    \/ \E p \in Procs : StartSolo(p) \/ StartNotFound(p)
    \/ \E p \in Procs : StopWait(p) \/ StopReconcile(p) \/ StopCreateOrphan(p)
    \/ \E m \in JsonSample : DevicePublish(TRUE, FindImage, m)
    \/ (\E p \in Procs : pc[p] = "t_poll") /\ Tick

SpecDelete == InitDelete /\ [][NextDelete]_vars

----------------------------------------------------------------------------
(* The raw-socket transport (socket_communication.py).  One end sends, the
   other receives; on both self.sock is the connected socket.  A byte is a
   number 0..255. *)

MaxSends == 2
MaxReceives == 2
MaxBlob == 2

Min(a, b) == IF a < b THEN a ELSE b
Drop(seq, k) == SubSeq(seq, k + 1, Len(seq))

\* struct.pack('!I', size): four bytes, the most significant first
Pack(size) ==
    <<(size \div 16777216) % 256, (size \div 65536) % 256, (size \div 256) % 256,
      size % 256>>

\* struct.unpack('!I', data)[0] of four bytes (here the first is below 128)
Unpack(data) == ((data[1] * 256 + data[2]) * 256 + data[3]) * 256 + data[4]

\* struct.unpack('!i', data)[0] of four bytes: two's complement
UnpackSigned(data) ==
    (((IF data[1] >= 128 THEN data[1] - 256 ELSE data[1]) * 256 + data[2]) * 256
        + data[3]) * 256 + data[4]

\* str(data).encode('utf-8') of an integer: its decimal digits, after '-'
RECURSIVE Digits(_)
Digits(n) == IF n < 10 THEN <<48 + n>> ELSE Digits(n \div 10) \o <<48 + (n % 10)>>
Str(n) == IF n < 0 THEN <<45>> \o Digits(0 - n) ELSE Digits(n)

\* 'TXT'.encode('utf-8')
TXT == <<84, 88, 84>>

\* What the sending end is given to send
BlobBytes == {17, 34}
Blobs == UNION {[1..n -> BlobBytes] : n \in 0..MaxBlob}
SentInts == {1, 5, 12, -1}

\* connect_client on one end, bind_server's accept on the other
SocketConnect ==
    /\ sock = NoSocket
    /\ sock' = [sock EXCEPT !.open = "yes"]
    /\ UNCHANGED <<children, now, sessions, stats, pc, loc, result, client, outbox,
                   msgs, calls>>

\* disconnect() of the sending end, between its send calls
Disconnect ==
    /\ sock.open = "yes"
    /\ sock.sending = <<>>
    /\ sock' = [sock EXCEPT !.open = "closed"]
    /\ UNCHANGED <<children, now, sessions, stats, pc, loc, result, client, outbox,
                   msgs, calls>>

CanSend == sock.open = "yes" /\ sock.sending = <<>> /\ Len(sock.sent) < MaxSends

\* send_int: the size of the text, the tag, the text
SendInt(data) ==
    /\ CanSend
    /\ LET data_bytes == Str(data)
           frame == Pack(Len(data_bytes)) \o TXT \o data_bytes
       IN sock' = [sock EXCEPT
                      !.wire = @ \o frame,
                      !.sent = Append(@, [call |-> "send_int", value |-> data,
                                          image_data |-> <<>>, frame |-> frame])]
    /\ UNCHANGED <<children, now, sessions, stats, pc, loc, result, client, outbox,
                   msgs, calls>>

\* send_image: size = len(image_data); sendall(struct.pack('!I', size))
SendImageSize(image_data) ==
    /\ CanSend
    /\ sock' = [sock EXCEPT
                   !.wire = @ \o Pack(Len(image_data)),
                   !.sending = <<image_data>>,
                   !.sent = Append(@, [call |-> "send_image", value |-> 0,
                                       image_data |-> image_data,
                                       frame |-> Pack(Len(image_data))])]
    /\ UNCHANGED <<children, now, sessions, stats, pc, loc, result, client, outbox,
                   msgs, calls>>

\* send_image: sendall(image_data) sends k bytes: all of them, or fewer when
\* it raises socket.error, which send_image logs
SendImageBytes(k) ==
    /\ sock.sending # <<>>
    /\ LET image_data == sock.sending[1]
           bytes == SubSeq(image_data, 1, k)
       IN sock' = [sock EXCEPT
                      !.wire = @ \o bytes,
                      !.sending = <<>>,
                      !.sent[Len(sock.sent)].frame = @ \o bytes]
    /\ UNCHANGED <<children, now, sessions, stats, pc, loc, result, client, outbox,
                   msgs, calls>>

SendImageData == sock.sending # <<>> /\ SendImageBytes(Len(sock.sending[1]))

SendImageDataFails ==
    /\ sock.sending # <<>>
    /\ \E k \in 0..(Len(sock.sending[1]) - 1) : SendImageBytes(k)

CanReceive ==
    sock.open # "no" /\ sock.receiving = "no" /\ Len(sock.returned) < MaxReceives

\* What a call of the receiving end returns (or raises)
Returned(call, kind, value, image_data, size) ==
    [call |-> call, kind |-> kind, value |-> value, image_data |-> image_data,
     size |-> size]

\* receive_int: data = self.sock.recv(4), which gives from one to four of the
\* bytes that have arrived, or nothing when the peer has closed;
\* struct.unpack raises struct.error on fewer than four bytes
ReceiveInt ==
    /\ CanReceive
    /\ \/ /\ sock.wire # <<>>
          /\ \E k \in 1..Min(4, Len(sock.wire)) :
                LET data == SubSeq(sock.wire, 1, k)
                IN sock' = [sock EXCEPT
                               !.wire = Drop(@, k),
                               !.returned = Append(@,
                                   IF k < 4
                                   THEN Returned("receive_int", "struct.error", 0, <<>>, 0)
                                   ELSE Returned("receive_int", "int",
                                                 UnpackSigned(data), <<>>, 0))]
       \/ /\ sock.wire = <<>>
          /\ sock.open = "closed"
          /\ sock' = [sock EXCEPT
                         !.returned = Append(@, Returned("receive_int", "None", 0, <<>>, 0))]
    /\ UNCHANGED <<children, now, sessions, stats, pc, loc, result, client, outbox,
                   msgs, calls>>

\* receive_image: size_data = self.sock.recv(4); if not size_data: break;
\* size = struct.unpack('!I', size_data)[0]; image_data = b''
ReceiveImageSize ==
    /\ CanReceive
    /\ \/ /\ sock.wire # <<>>
          /\ \E k \in 1..Min(4, Len(sock.wire)) :
                LET size_data == SubSeq(sock.wire, 1, k)
                IN IF k < 4
                   THEN sock' = [sock EXCEPT
                                    !.wire = Drop(@, k),
                                    !.returned = Append(@,
                                        Returned("receive_image", "struct.error", 0, <<>>, 0))]
                   ELSE sock' = [sock EXCEPT
                                    !.wire = Drop(@, k),
                                    !.receiving = "data",
                                    !.size = Unpack(size_data),
                                    !.image_data = <<>>]
       \/ /\ sock.wire = <<>>
          /\ sock.open = "closed"
          /\ sock' = [sock EXCEPT
                         !.returned = Append(@, Returned("receive_image", "None", 0, <<>>, 0))]
    /\ UNCHANGED <<children, now, sessions, stats, pc, loc, result, client, outbox,
                   msgs, calls>>

\* receive_image: while len(image_data) < size:
\*     packet = self.sock.recv(size - len(image_data))
\*     if not packet: break
\*     image_data += packet
\* return image_data
ReceiveImageData ==
    /\ sock.receiving = "data"
    /\ LET return == [sock EXCEPT
                         !.receiving = "no", !.size = 0, !.image_data = <<>>,
                         !.returned = Append(@, Returned("receive_image", "bytes", 0,
                                                         sock.image_data, sock.size))]
       IN IF Len(sock.image_data) >= sock.size
          THEN sock' = return
          ELSE \/ /\ sock.wire # <<>>
                  /\ \E k \in 1..Min(sock.size - Len(sock.image_data), Len(sock.wire)) :
                        sock' = [sock EXCEPT
                                    !.wire = Drop(@, k),
                                    !.image_data = @ \o SubSeq(sock.wire, 1, k)]
               \/ /\ sock.wire = <<>>
                  /\ sock.open = "closed"
                  /\ sock' = return
    /\ UNCHANGED <<children, now, sessions, stats, pc, loc, result, client, outbox,
                   msgs, calls>>

NextSocket ==
    \/ SocketConnect \/ Disconnect
    \/ \E data \in SentInts : SendInt(data)
    \/ \E image_data \in Blobs : SendImageSize(image_data)
    \/ SendImageData \/ SendImageDataFails
    \/ ReceiveInt \/ ReceiveImageSize \/ ReceiveImageData

SpecSocket == Init /\ [][NextSocket]_vars

----------------------------------------------------------------------------
(* Claims *)

AttemptNumbers(t, ca) == {r.attempt : r \in RowsOf(t, ca)}

AllPairs == {<<c, a>> : c \in Children, a \in Tables}

\* C1: after any sequence of attempt-row creations for a Session the retained
\* rows carry at most 3 distinct attempt numbers, and no row remains whose
\* attempt number is 3 or more below that of another retained row (a row of the
\* 4th group excludes every row of the 1st).
C1_RollingWindow ==
    \A t \in Tables : \A ca \in AllPairs :
        /\ Cardinality(AttemptNumbers(t, ca)) <= 3
        /\ \A r1, r2 \in RowsOf(t, ca) : r1.attempt - r2.attempt < 3

C1_Witness ==
    /\ \A p \in Procs : Idle(p)
    /\ AttemptNumbers(FindImage, StoreSession) = {2, 3, 4}
    /\ IsNewAttemptGroup(FindImage, StoreSession, 4)

----------------------------------------------------------------------------
(* score and level.  The counts are integers and a score is their quotient
   times 100: it is kept as a fraction, compared by cross-multiplication
   (denominators are positive). *)

MaxCount == 10

Frac(n, d) == [num |-> n, den |-> d]
Div(a, b) == Frac(a, b)
Times(f, k) == Frac(f.num * k, f.den)
Greater(f, k) == f.num > k * f.den
AtLeast(f, k) == f.num >= k * f.den
AtMost(f, k) == f.num <= k * f.den
Less(f, k) == f.num < k * f.den

\* ChildActivity.score
ChildActivityScoreWrongShare(s) ==
    IF s.total_right_answers + s.total_wrong_answers > 0
    THEN Times(Div(s.total_wrong_answers,
                   s.total_right_answers + s.total_wrong_answers), 100)
    ELSE Frac(0, 1)
ChildActivityScore(s) ==
    IF s.total_right_answers + s.total_wrong_answers > 0
    THEN Times(Div(s.total_right_answers,
                   s.total_right_answers + s.total_wrong_answers), 100)
    ELSE Frac(0, 1)

\* ChildActivity.level
ChildActivityLevelFrom90(s) ==
    LET score == ChildActivityScore(s)
    IN IF AtLeast(score, 90) THEN "Excellent"
       ELSE IF AtLeast(score, 70) /\ AtMost(score, 90) THEN "Good"
       ELSE IF AtLeast(score, 50) /\ Less(score, 70) THEN "Average"
       ELSE "Needs Improvement"
ChildActivityLevel(s) ==
    LET score == ChildActivityScore(s)
    IN IF Greater(score, 90) THEN "Excellent"
       ELSE IF AtLeast(score, 70) /\ AtMost(score, 90) THEN "Good"
       ELSE IF AtLeast(score, 50) /\ Less(score, 70) THEN "Average"
       ELSE "Needs Improvement"

\* <Stats>.score: each of the five classes has its own, with the same text
OwnScore(r) ==
    IF r.right_answers + r.wrong_answers > 0
    THEN Times(Div(r.right_answers, r.right_answers + r.wrong_answers), 100)
    ELSE Frac(0, 1)

StatsScore(t, r) ==
    CASE t = TouchBodyPart -> OwnScore(r)
      [] t = MatchColor -> OwnScore(r)
      [] t = FindNumber -> OwnScore(r)
      [] t = FindImage -> OwnScore(r)
      [] t = LearnWithButtons -> OwnScore(r)

\* <Stats>.level, likewise
StatsLevel(t, r) ==
    LET score == StatsScore(t, r)
    IN IF Greater(score, 90) THEN "Excellent"
       ELSE IF AtLeast(score, 70) /\ AtMost(score, 90) THEN "Good"
       ELSE IF AtLeast(score, 50) /\ Less(score, 70) THEN "Average"
       ELSE "Needs Improvement"

\* A report page shows score and level of the ChildActivity records and of
\* the attempt rows it lists
NoReport == [kind |-> "none"]

Report(p) ==
    /\ result[p].kind = "none"
    /\ result' = [result EXCEPT ![p] =
                     [kind |-> "report",
                      sessions |-> [t \in Tables |->
                          LET s == TheOne(SessionsOf(1, t))
                          IN [score |-> ChildActivityScore(s),
                              level |-> ChildActivityLevel(s)]],
                      rows |-> [t \in Tables |->
                          LET r == TheOne(stats[t])
                          IN [score |-> StatsScore(t, r),
                              level |-> StatsLevel(t, r)]]]]
    /\ UNCHANGED <<children, sock, now, sessions, stats, pc, loc, client, outbox, msgs, calls>>

\* Every activity has a Session of child 1 and one attempt row, all with the
\* same counts
InitScore ==
    /\ now = 0
    /\ \E right, wrong \in 0..MaxCount :
          /\ sessions = {[n |-> 0, child |-> 1, activity |-> t,
                          start_activity |-> None, stop_activity |-> None,
                          total_right_answers |-> right,
                          total_wrong_answers |-> wrong] : t \in Tables}
          /\ stats = [t \in Tables |->
                        {NewRow({}, <<1, t>>, 1, CHOOSE c \in CHOICES(t) : TRUE,
                                right, wrong)}]
    /\ pc = [p \in Procs |-> "idle"]
    /\ loc = [p \in Procs |-> NoLocals]
    /\ result = [p \in Procs |-> NoReport]
    /\ client = [p \in Procs |-> NewClient]
    /\ outbox = [p \in Procs |-> <<>>]
    /\ msgs = 0
    /\ calls = 0
    /\ children = Children
    /\ sock = NoSocket

NextScore == \E p \in Procs : Report(p)

SpecScore == InitScore /\ [][NextScore]_vars

----------------------------------------------------------------------------
(* stop_activity until it holds a result or gives up *)

WaitPcs == {"t_connect", "t_subscribe", "t_publish", "t_poll"}

\* Request p takes a step of that part of stop_activity
WaitStep(p) == loc[p].op = "stop" /\ pc[p] \in WaitPcs /\ pc'[p] # pc[p]

\* Request p gives up waiting
TimesOut(p) == pc[p] = "t_poll" /\ result'[p] = "timedout"

Totals == {<<s.child, s.activity, s.n, s.total_right_answers, s.total_wrong_answers>> :
              s \in sessions}

\* C3: a stop() that times out creates no row in any attempt table, leaves
\* the rows there as they are, and leaves every Session's totals unchanged.
C3_TimeoutFrame ==
    [][\A p \in Procs : (WaitStep(p) /\ pc'[p] # "t_get") =>
          /\ stats' = stats
          /\ Totals' = Totals]_vars

C3_Witness ==
    \E p \in Procs :
        /\ result[p] = "timedout"
        /\ stats[FindImage] # {}
        /\ \E s \in SessionsOf(1, FindImage) : s.total_right_answers > 0

\* C4: when stop() has returned, timed out or reconciled, its client is
\* unsubscribed from the performance topic and its received-flag and buffered
\* result are reset.
C4_Original ==
    \A p \in Procs : result[p] \in {"timedout", "completed"} =>
        /\ client[p].subscribed = {}
        /\ ~client[p].performance_data_received
        /\ client[p].performance_data = {}

\* C5: a stop() that is waiting and to which a result message
\* {"right_answers": ..., "wrong_answers": ...} was delivered before its
\* deadline leaves the wait only to reconcile that result: it neither times
\* out nor raises.
C5_Original ==
    [][\A p \in Procs :
          (/\ pc[p] = "t_poll"
           /\ client[p].last.kind = "json"
           /\ client[p].waited
           /\ pc'[p] # "t_poll") => pc'[p] = "t_get"]_vars

\* What the reconciler is to create for a payload
RowsFor(data) ==
    {<<k, data.right_answers[k], GetOrZero(data.wrong_answers, k)>> :
        k \in DOMAIN data.right_answers}

\* C6: when a stop() that received a payload ends, it has created exactly one
\* row for each key k of right_answers, with right_answers[k] and
\* wrong_answers[k] (0 when absent), and none for another key.
C6_Original ==
    [][\A p \in Procs :
          (/\ loc[p].op = "stop" /\ loc[p].data # {}
           /\ pc[p] \in {"v_insert", "t_unsubscribe"}
           /\ pc'[p] = "idle")
          => /\ {<<r.choice, r.right_answers, r.wrong_answers>> : r \in loc[p].made}
                    = RowsFor(TheOne(loc[p].data))
             /\ Cardinality(loc[p].made) = Cardinality(DOMAIN TheOne(loc[p].data).right_answers)]_vars

AfterSave == {"t_loop", "v_last", "v_group", "v_delete", "v_insert", "t_unsubscribe"}

\* The sum of a payload mapping, key by key
KeySum(f) == GetOrZero(f, "fruits") + GetOrZero(f, "shapes")

RECURSIVE SumRows(_, _)
SumRows(rows, right) ==
    IF rows = {} THEN 0
    ELSE LET r == CHOOSE x \in rows : TRUE
         IN (IF right THEN r.right_answers ELSE r.wrong_answers)
                + SumRows(rows \ {r}, right)

\* C8: whenever no request is running, each Session's total_right_answers and
\* total_wrong_answers are the sums of right_answers and wrong_answers over
\* the attempt rows that belong to it.
C8_Original ==
    (\A p \in Procs : Idle(p)) =>
        \A s \in sessions : \A t \in StatsTables(s.activity) :
            /\ s.total_right_answers = SumRows(RowsOf(t, <<s.child, s.activity>>), TRUE)
            /\ s.total_wrong_answers = SumRows(RowsOf(t, <<s.child, s.activity>>), FALSE)

\* C9: under any interleaving of start() and stop() requests, a stop without
\* a start included, there is at most one Session row per (child, activity).
C9_OneSessionPerPair ==
    \A c \in Children : \A a \in Activities : Cardinality(SessionsOf(c, a)) <= 1

\* Two requests raced to create the pair's Session and one was refused
C9_Witness ==
    \E p, q \in Procs :
        /\ p # q
        /\ loc[p].created
        /\ pc[q] \in {"s_reget", "t_reget"}
        /\ Cardinality(SessionsOf(1, FindImage)) = 1

\* C10: in every state, concurrent writers included, no two rows of one
\* attempt table share (child_activity, attempt, choice).
C10_UniqueAttemptRows ==
    \A t \in Tables : \A r1, r2 \in stats[t] :
        (/\ r1.child_activity = r2.child_activity
         /\ r1.attempt = r2.attempt
         /\ r1.choice = r2.choice) => r1 = r2

\* Two writers are at their INSERT with the same key; one is refused
C10_Witness ==
    \E p, q \in Procs :
        /\ p # q
        /\ pc[p] = "idle" /\ result[p] = "created"
        /\ pc[q] = "v_insert"
        /\ \E i \in loc[q].inst :
              UniqueViolation(stats[i.table], i.child_activity, i.attempt, i.choice)

----------------------------------------------------------------------------
(* The transport's buffer *)

\* C18: the client holds one result, not a queue: whenever the last payload
\* its handler took was a result "correct,incorrect,average_time", its three
\* values are those of that payload, whatever it held before, and its
\* received-flag is set.
C18_LastResultOnly ==
    \A p \in Procs :
        (client[p].last.kind = "csv" /\ client[p].connected) =>
            /\ client[p].correct_answers = client[p].last.fields[1].val
            /\ client[p].incorrect_answers = client[p].last.fields[2].val
            /\ client[p].average_time = client[p].last.fields[3].val
            /\ client[p].performance_data_received

\* Two results reached one waiting request's client, the second with other
\* values than the first
C18_Witness ==
    \E p \in Procs :
        /\ pc[p] = "t_poll"
        /\ msgs = 2
        /\ \A q \in Procs \ {p} : client[q].last.kind = "none"
        /\ client[p].last.kind = "csv"
        /\ client[p].correct_answers = 0
        /\ client[p].performance_data_received

----------------------------------------------------------------------------
(* Termination of stop_activity *)

\* C11: every stop() returns: whether or not a result ever arrives, a request
\* that is connecting, subscribing, publishing or polling is eventually done,
\* at the latest when its timeout window has passed.
C11_StopTerminates ==
    \A p \in Procs : (loc[p].op = "stop" /\ pc[p] \in WaitPcs) ~> Idle(p)

\* A stop() to whose client no message was ever delivered has returned
C11_Witness ==
    \E p \in Procs :
        /\ result[p] = "timedout"
        /\ client[p].last.kind = "none"
        /\ msgs = 0

----------------------------------------------------------------------------
(* start_activity *)

StartPcs == {"s_get", "s_create", "s_reget", "s_update", "s_connect", "s_publish"}

\* C12: when a start(child, activity) request ends, the pair has exactly one
\* Session row, its start timestamp is set and not older than the call, and
\* the request has published exactly one message, the start message of the
\* activity.
C12_Original ==
    [][\A p \in Procs :
          (pc[p] \in StartPcs /\ pc'[p] = "idle") =>
              /\ Cardinality(SessionsOf(loc[p].child, loc[p].activity)) = 1
              /\ \A s \in SessionsOf(loc[p].child, loc[p].activity) :
                    s.start_activity # None /\ s.start_activity >= loc[p].t0
              /\ outbox'[p] = << <<"activity/start", loc[p].activity>> >>]_vars

\* C15: no request ends with the exception of a failed connect.
C15_Original ==
    \A p \in Procs : result[p] # "ConnectError"

----------------------------------------------------------------------------
(* Malformed results *)

\* C14: a malformed result payload is discarded: the client whose handler
\* takes it is afterwards as it was before (its flag, its values, its network
\* thread), so that its request goes on as if nothing had arrived.
C14_Original ==
    [][\A p \in Subscribers(FindImage) :
          (msgs' # msgs /\ client'[p].last.kind = "bad") =>
              client'[p] = [client[p] EXCEPT !.last = client'[p].last,
                                            !.waited = client'[p].waited]]_vars

----------------------------------------------------------------------------
(* Simultaneous stops *)

\* C13: stop() requests that run at the same time for different children do
\* not share a result: a result message of one run is reconciled into one
\* Session at most, so no more Sessions have been stopped than results were
\* published.
C13_Original ==
    Cardinality({s \in sessions : s.stop_activity # None}) <= msgs

----------------------------------------------------------------------------
(* An activity without a stats table *)

----------------------------------------------------------------------------
(* Rows without answers *)

\* C17: no stats table ever holds a row whose right_answers and wrong_answers
\* are both zero.
C17_Original ==
    \A t \in Tables : \A r \in stats[t] : ~(r.right_answers = 0 /\ r.wrong_answers = 0)

----------------------------------------------------------------------------
(* score and level *)

FracEq(f, g) == f.num * g.den = g.num * f.den

\* The counts every record of the store holds
Right == (TheOne(SessionsOf(1, FindImage))).total_right_answers
Wrong == (TheOne(SessionsOf(1, FindImage))).total_wrong_answers

\* C19: the score of a Session is 0 when right + wrong = 0 and
\* 100 * right / (right + wrong) otherwise, and the score of an attempt row of
\* each of the five tables is the score of the Session with the same counts.
C19_Score ==
    \A p \in Procs : result[p].kind = "report" =>
        \A t \in Tables :
            /\ Right + Wrong = 0 => FracEq(result[p].sessions[t].score, Frac(0, 1))
            /\ Right + Wrong > 0 =>
                   FracEq(result[p].sessions[t].score, Frac(100 * Right, Right + Wrong))
            /\ FracEq(result[p].rows[t].score, result[p].sessions[t].score)

C19_Witness ==
    \E p \in Procs :
        /\ result[p].kind = "report"
        /\ Right = 3 /\ Wrong = 1
        /\ \A t \in Tables :
              /\ FracEq(result[p].sessions[t].score, Frac(75, 1))
              /\ FracEq(result[p].rows[t].score, Frac(75, 1))

\* C20: the level of a Session is "Excellent" iff its score is over 90, "Good"
\* iff it is from 70 to 90, "Average" iff it is from 50 to under 70 and
\* "Needs Improvement" iff it is under 50 (no answers: score 0), and the level
\* of an attempt row of each table is the level of the Session with the same
\* counts.
C20_Level ==
    \A p \in Procs : result[p].kind = "report" =>
        LET n == Right + Wrong
            over(k) == n > 0 /\ 100 * Right > k * n
            under(k) == n = 0 \/ 100 * Right < k * n
        IN \A t \in Tables :
            LET level == result[p].sessions[t].level
            IN /\ level = "Excellent" <=> over(90)
               /\ level = "Good" <=> (~under(70) /\ ~over(90))
               /\ level = "Average" <=> (~under(50) /\ under(70))
               /\ level = "Needs Improvement" <=> under(50)
               /\ result[p].rows[t].level = level

\* Reports at the boundaries: 9 of 10 and 7 of 10 are "Good", 1 of 2 is
\* "Average", no answers "Needs Improvement", 10 of 11 "Excellent"
C20_Witness ==
    \E p \in Procs :
        /\ result[p].kind = "report"
        /\ Right = 9 /\ Wrong = 1
        /\ \A t \in Tables :
              result[p].sessions[t].level = "Good" /\ result[p].rows[t].level = "Good"

----------------------------------------------------------------------------
(* Deleting a child *)

\* The rows of the other children than c: Sessions, and attempt rows
OthersSessions(c) == {s \in sessions : s.child # c}
OthersRows(c) == [t \in Tables |-> {r \in stats[t] : r.child_activity[1] # c}]

\* C21: the step that deletes a child leaves no Session and no attempt row
\* of that child and leaves the Sessions and attempt rows of every other
\* child as they were; and while a child is deleted no Session and no attempt
\* row of it exists.
C21_DeleteCascades ==
    [][/\ \A c \in children \ children' :
             /\ OthersSessions(c)' = sessions'
             /\ OthersRows(c)' = stats'
             /\ OthersSessions(c)' = OthersSessions(c)
             /\ OthersRows(c)' = OthersRows(c)
       /\ \A c \in Children \ children' :
             /\ OthersSessions(c)' = sessions'
             /\ OthersRows(c)' = stats']_vars

\* A child with a Session and an attempt row was deleted; the other child's
\* Session and attempt row are there
C21_Witness ==
    \E p \in Procs :
        /\ pc[p] = "d_redirect"
        /\ loc[p].made = {RunRow(1)}
        /\ children = {2}
        /\ sessions = {RunSession(2)}
        /\ stats[FindImage] = {RunRow(2)}

----------------------------------------------------------------------------
(* The raw-socket transport *)

\* The payload of a send call: the blob, or the text of the integer
Payload(call) == IF call.call = "send_image" THEN call.image_data ELSE Str(call.value)

\* The send calls that have returned
SendsDone == {i \in DOMAIN sock.sent : i < Len(sock.sent) \/ sock.sending = <<>>}

\* C22: every send call has put on the wire the 4-byte big-endian size of its
\* payload followed by exactly the payload's bytes; and a blob that
\* receive_image returns has the length its header announced and, when only
\* blobs were sent and received, is the blob of the send_image call of the
\* same rank.
C22_Original ==
    /\ \A i \in SendsDone :
          sock.sent[i].frame = Pack(Len(Payload(sock.sent[i]))) \o Payload(sock.sent[i])
    /\ \A j \in DOMAIN sock.returned :
          (sock.returned[j].call = "receive_image" /\ sock.returned[j].kind = "bytes") =>
              /\ Len(sock.returned[j].image_data) = sock.returned[j].size
              /\ (/\ j <= Len(sock.sent)
                  /\ \A i \in 1..j :
                        /\ sock.sent[i].call = "send_image"
                        /\ sock.returned[i].call = "receive_image"
                        /\ sock.returned[i].kind = "bytes")
                  => sock.returned[j].image_data = sock.sent[j].image_data

\* C23: send_int puts the integer on the wire as four bytes without a tag,
\* and when only integers were sent and received, the integer receive_int
\* returns is the one given to the send_int call of the same rank.
C23_Original ==
    /\ \A i \in DOMAIN sock.sent :
          sock.sent[i].call = "send_int" =>
              /\ Len(sock.sent[i].frame) = 4
              /\ UnpackSigned(sock.sent[i].frame) = sock.sent[i].value
    /\ \A j \in DOMAIN sock.returned :
          (/\ sock.returned[j].kind = "int"
           /\ j <= Len(sock.sent)
           /\ \A i \in 1..j :
                 /\ sock.sent[i].call = "send_int"
                 /\ sock.returned[i].call = "receive_int"
                 /\ sock.returned[i].kind = "int")
              => sock.returned[j].value = sock.sent[j].value

----------------------------------------------------------------------------
(* The attempt number of a new row *)

\* The highest attempt number among the rows of Session ca in table t
Highest(t, ca) == SetMax(AttemptNumbers(t, ca))

\* Every defined choice of table t has a row of Session ca with attempt m
GroupComplete(t, ca, m) ==
    \A c \in CHOICES(t) : \E q \in RowsOf(t, ca) : q.attempt = m /\ q.choice = c

\* C24: a row that is saved for a Session gets attempt number 1 when the
\* Session has no row in the table; otherwise the highest attempt number m
\* there, unless every defined choice has a row with attempt number m, and
\* then, and only then, m + 1.
C24_Original ==
    [][\A t \in Tables : \A r \in stats'[t] \ stats[t] :
          LET ca == r.child_activity
              m == Highest(t, ca)
          IN r.attempt = IF RowsOf(t, ca) = {} THEN 1
                         ELSE IF GroupComplete(t, ca, m) THEN m + 1 ELSE m]_vars

SavePcs == {"v_last", "v_group", "v_delete", "v_insert"}

\* C25: a save of a new row deletes rows only in its delete statement, which
\* it reaches if and only if the attempt number n of the new row is over 3;
\* that statement deletes exactly the rows of the row's Session and table with
\* attempt number n - 3, and rows of other Sessions and of other tables are as
\* they were after every statement of the save.
C25_DeleteFrame ==
    [][\A p \in Procs : (pc[p] \in SavePcs /\ pc'[p] # pc[p]) =>
          LET i == TheOne(loc[p].inst)
              t == i.table
              oldest == {r \in stats[t] : /\ r.child_activity = i.child_activity
                                          /\ r.attempt = i.attempt - 3}
          IN /\ \A u \in Tables \ {t} : stats'[u] = stats[u]
             /\ stats[t] \ stats'[t] = IF pc[p] = "v_delete" THEN oldest ELSE {}
             /\ pc[p] = "v_delete" => (i.attempt > 3 /\ pc'[p] = "v_insert")
             /\ pc[p] = "v_group" =>
                    (pc'[p] = "v_delete" <=> TheOne(loc'[p].inst).attempt > 3)
             /\ pc[p] = "v_insert" =>
                    \A r \in stats'[t] \ stats[t] : r.attempt = i.attempt]_vars

\* The first row of group 4 is about to be inserted: its save has deleted the
\* rows of group 1, and the rows of the other Session and of the other table,
\* which have attempt number 1, are there
C25_Witness ==
    \E p \in Procs :
        /\ pc[p] = "v_insert"
        /\ TheOne(loc[p].inst).attempt = 4
        /\ AttemptNumbers(FindImage, StoreSession) = {2, 3}
        /\ OtherSessionRow \in stats[FindImage]
        /\ OtherTableRow \in stats[MatchColor]

\* C26: within a Session and table the attempt numbers of successively saved
\* rows start at 1, never decrease and never skip: a new row gets the highest
\* attempt number so far or that number plus one.
C26_NoSkip ==
    [][\A t \in Tables : \A r \in stats'[t] \ stats[t] :
          LET ca == r.child_activity
          IN IF RowsOf(t, ca) = {}
             THEN r.attempt = 1
             ELSE r.attempt \in {Highest(t, ca), Highest(t, ca) + 1}]_vars

\* Rows were saved with the numbers 1, 2, 3 and 4 in turn
C26_Witness ==
    /\ \A p \in Procs : Idle(p)
    /\ AttemptNumbers(FindImage, StoreSession) = {2, 3, 4}
    /\ \E r \in RowsOf(FindImage, StoreSession) : r.attempt = 4 /\ r.choice = "other"

----------------------------------------------------------------------------
(* The stop signal *)

StopMessage(p) == <<"activity/stop", loc[p].activity>>

\* C27: a stop() request that ends has published one message, the stop
\* signal of its activity, and the request goes from its publish to the wait
\* for the result.
C27_Original ==
    [][\A p \in Procs :
          /\ (loc[p].op = "stop" /\ pc'[p] = "idle") => outbox'[p] = <<StopMessage(p)>>
          /\ (pc[p] = "t_publish" /\ pc'[p] # pc[p]) => pc'[p] = "t_poll"]_vars

\* C29: a stop() request publishes its stop signal as a client that is
\* subscribed to the result topic of its activity, and it stays subscribed
\* while it runs after that: whenever the device answers the stop signal, the
\* request is subscribed.
C29_SubscribedBeforeStop ==
    \A p \in Procs :
        (loc[p].op = "stop" /\ outbox[p] # <<>> /\ pc[p] = "t_poll") =>
            /\ outbox[p] = <<StopMessage(p)>>
            /\ loc[p].activity \in client[p].subscribed
            /\ client[p].connected

\* The device has answered a stop signal and the waiting request's client
\* has taken the answer
C29_Witness ==
    \E p \in Procs :
        /\ pc[p] = "t_poll"
        /\ outbox[p] = <<StopMessage(p)>>
        /\ client[p].last.kind = "csv"
        /\ client[p].waited
        /\ client[p].performance_data_received

----------------------------------------------------------------------------
(* Runs that follow one another *)

\* C28: no request ends with the IntegrityError of a refused row: every
\* stop() that received a result creates all its attempt rows, whatever
\* earlier runs of the pair have written.
C28_Original ==
    \A p \in Procs : result[p] # "IntegrityError"

\* C30: a Session that has a start and a stop timestamp has
\* stop >= start, and its duration is not negative.
C30_Original ==
    \A s \in sessions :
        (s.start_activity # None /\ s.stop_activity # None) =>
            (s.stop_activity >= s.start_activity /\ Duration(s) >= 0)

====
